---------------------------- MODULE Spec2Model ----------------------------
(***************************************************************************)
(* Affiliation classification, company matching and record filtering of   *)
(* pubmed_pharma_papers (company_identifier.py, csv_writer.py).           *)
(*                                                                         *)
(* A Python str is a sequence of one-character strings, so that lower(),  *)
(* title(), the `in` substring test, startswith() and the regular         *)
(* expression of _find_keyword_matches are computed character by          *)
(* character.  The empty str is <<>>.                                      *)
(***************************************************************************)
EXTENDS Integers, Sequences, FiniteSets, TLC

VARIABLES
    affiliation,        \* the argument of the classifier / matcher calls
    called,             \* which of the CompanyIdentifier methods have been called
    non_academic,       \* return value of is_non_academic_affiliation(affiliation)
    matches,            \* return value of identify_companies(affiliation)
    company_names,      \* return value of extract_company_names(matches)
    raised,             \* the exception that reached the caller, "" when none
    papers,             \* the argument of filter_and_convert_papers
    pc,                 \* filter_and_convert_papers: "idle", "loop", "done", "raised"
    idx,                \* papers[1..idx] have been through the loop
    records,            \* the records list of filter_and_convert_papers
    query,              \* fetch_papers: the query argument
    max_results,        \* fetch_papers: the max_results argument
    fetch_pc,           \* fetch_papers: where the call stands
    pubmed_ids,         \* the ids search_papers returned
    batch_start,        \* fetch_paper_details: i of `for i in range(...)`
    all_papers,         \* fetch_paper_details: the papers fetched so far
    requests,           \* the efetch requests made, with the kind of response
    calls,              \* the calls fetch_papers has made, in order
    result,             \* the return value of fetch_papers
    tables              \* CompanyIdentifier: the three lookup tables

identifier_vars == <<affiliation, called, non_academic, matches, company_names, raised>>

writer_vars == <<papers, pc, idx, records>>

fetcher_vars == <<query, max_results, fetch_pc, pubmed_ids, batch_start, all_papers,
                  requests, calls, result>>

vars == <<affiliation, called, non_academic, matches, company_names, raised,
          papers, pc, idx, records,
          query, max_results, fetch_pc, pubmed_ids, batch_start, all_papers,
          requests, calls, result, tables>>

-----------------------------------------------------------------------------
(* str primitives *)

UpperCase == <<"A","B","C","D","E","F","G","H","I","J","K","L","M",
               "N","O","P","Q","R","S","T","U","V","W","X","Y","Z">>

LowerCase == <<"a","b","c","d","e","f","g","h","i","j","k","l","m",
               "n","o","p","q","r","s","t","u","v","w","x","y","z">>

Digits == <<"0","1","2","3","4","5","6","7","8","9">>

\* the case mappings of str.lower() and str.upper(), as tables
to_lower == [c \in {UpperCase[i] : i \in 1..26} |->
                LowerCase[CHOOSE i \in 1..26 : UpperCase[i] = c]]

to_upper == [c \in {LowerCase[i] : i \in 1..26} |->
                UpperCase[CHOOSE i \in 1..26 : LowerCase[i] = c]]

IsUpper(c) == c \in DOMAIN to_lower

IsLower(c) == c \in DOMAIN to_upper

\* str.lower() on one character
lower_char(c) == IF IsUpper(c) THEN to_lower[c] ELSE c

\* str.upper() on one character
upper_char(c) == IF IsLower(c) THEN to_upper[c] ELSE c

\* str.lower()
lower(s) == [i \in 1..Len(s) |-> lower_char(s[i])]

\* str.title(): a cased character is upper-cased when the character before
\* it is not cased, and lower-cased otherwise
title(s) ==
    [i \in 1..Len(s) |->
        IF i > 1 /\ (IsUpper(s[i-1]) \/ IsLower(s[i-1]))
        THEN lower_char(s[i]) ELSE upper_char(s[i])]

\* Python's `sub in s` (the first character is compared before the slice)
Contains(sub, s) ==
    \/ sub = <<>>
    \/ \E i \in 1..(Len(s) - Len(sub) + 1) :
           s[i] = sub[1] /\ SubSeq(s, i, i + Len(sub) - 1) = sub

\* s.startswith(prefix)
startswith(s, prefix) ==
    Len(prefix) <= Len(s) /\ SubSeq(s, 1, Len(prefix)) = prefix

-----------------------------------------------------------------------------
(* CompanyIdentifier: the lookup tables *)

companies ==
    { <<"p","f","i","z","e","r">>,
      <<"j","o","h","n","s","o","n"," ","&"," ","j","o","h","n","s","o","n">>, <<"j","&","j">>,
      <<"r","o","c","h","e">>, <<"n","o","v","a","r","t","i","s">>, <<"m","e","r","c","k">>,
      <<"s","a","n","o","f","i">>,
      <<"g","l","a","x","o","s","m","i","t","h","k","l","i","n","e">>, <<"g","s","k">>,
      <<"a","s","t","r","a","z","e","n","e","c","a">>,
      <<"b","r","i","s","t","o","l"," ","m","y","e","r","s"," ","s","q","u","i","b","b">>,
      <<"b","m","s">>, <<"a","b","b","o","t","t">>, <<"e","l","i"," ","l","i","l","l","y">>,
      <<"l","i","l","l","y">>, <<"a","m","g","e","n">>, <<"g","i","l","e","a","d">>,
      <<"b","i","o","g","e","n">>, <<"c","e","l","g","e","n","e">>,
      <<"r","e","g","e","n","e","r","o","n">>, <<"v","e","r","t","e","x">>,
      <<"m","o","d","e","r","n","a">>, <<"b","i","o","n","t","e","c","h">>,
      <<"i","l","l","u","m","i","n","a">>,
      <<"t","h","e","r","m","o"," ","f","i","s","h","e","r">>, <<"a","g","i","l","e","n","t">>,
      <<"w","a","t","e","r","s">>, <<"p","e","r","k","i","n","e","l","m","e","r">>,
      <<"d","a","n","a","h","e","r">>,
      <<"b","e","c","t","o","n"," ","d","i","c","k","i","n","s","o","n">>, <<"b","d">>,
      <<"m","e","d","t","r","o","n","i","c">>,
      <<"b","o","s","t","o","n"," ","s","c","i","e","n","t","i","f","i","c">>,
      <<"e","d","w","a","r","d","s"," ","l","i","f","e","s","c","i","e","n","c","e","s">>,
      <<"i","n","t","u","i","t","i","v","e"," ","s","u","r","g","i","c","a","l">>,
      <<"s","t","r","y","k","e","r">>, <<"g","e","n","e","n","t","e","c","h">>,
      <<"i","m","m","u","n","o","g","e","n">>,
      <<"s","e","a","t","t","l","e"," ","g","e","n","e","t","i","c","s">>,
      <<"s","e","a","g","e","n">>, <<"b","l","u","e","b","i","r","d"," ","b","i","o">>,
      <<"c","r","i","s","p","r"," ","t","h","e","r","a","p","e","u","t","i","c","s">>,
      <<"e","d","i","t","a","s"," ","m","e","d","i","c","i","n","e">>,
      <<"i","n","t","e","l","l","i","a"," ","t","h","e","r","a","p","e","u","t","i","c","s">>,
      <<"s","a","n","g","a","m","o"," ","t","h","e","r","a","p","e","u","t","i","c","s">>,
      <<"a","l","n","y","l","a","m">>,
      <<"i","o","n","i","s"," ","p","h","a","r","m","a","c","e","u","t","i","c","a","l","s">>,
      <<"a","n","t","i","s","e","n","s","e"," ","t","h","e","r","a","p","e","u","t","i","c","s">>,
      <<"w","a","v","e"," ","l","i","f","e"," ","s","c","i","e","n","c","e","s">>,
      <<"s","a","r","e","p","t","a"," ","t","h","e","r","a","p","e","u","t","i","c","s">>,
      <<"b","i","o","m","a","r","i","n">>, <<"a","l","e","x","i","o","n">>,
      <<"u","l","t","r","a","g","e","n","y","x">>,
      <<"h","o","r","i","z","o","n"," ","t","h","e","r","a","p","e","u","t","i","c","s">>,
      <<"j","a","z","z"," ","p","h","a","r","m","a","c","e","u","t","i","c","a","l","s">>,
      <<"n","e","u","r","o","c","r","i","n","e"," ","b","i","o","s","c","i","e","n","c","e","s">>,
      <<"s","a","g","e"," ","t","h","e","r","a","p","e","u","t","i","c","s">>,
      <<"k","a","r","u","n","a"," ","t","h","e","r","a","p","e","u","t","i","c","s">>,
      <<"c","o","m","p","a","s","s"," ","p","a","t","h","w","a","y","s">>,
      <<"m","i","n","d","m","e","d">>, <<"t","e","v","a">>, <<"m","y","l","a","n">>,
      <<"v","i","a","t","r","i","s">>, <<"s","a","n","d","o","z">>, <<"h","i","k","m","a">>,
      <<"s","u","n"," ","p","h","a","r","m","a">>, <<"d","r"," ","r","e","d","d","y">>,
      <<"l","u","p","i","n">>, <<"c","i","p","l","a">>, <<"a","u","r","o","b","i","n","d","o">>,
      <<"z","y","d","u","s"," ","c","a","d","i","l","a">>,
      <<"t","o","r","r","e","n","t"," ","p","h","a","r","m","a","c","e","u","t","i","c","a","l","s">>,
      <<"g","l","e","n","m","a","r","k">>,
      <<"a","l","k","e","m"," ","l","a","b","o","r","a","t","o","r","i","e","s">>,
      <<"q","u","i","n","t","i","l","e","s">>, <<"i","q","v","i","a">>,
      <<"c","o","v","a","n","c","e">>, <<"p","a","r","e","x","e","l">>,
      <<"p","r","a"," ","h","e","a","l","t","h"," ","s","c","i","e","n","c","e","s">>,
      <<"s","y","n","e","o","s"," ","h","e","a","l","t","h">>, <<"i","c","o","n">>,
      <<"p","p","d">>,
      <<"c","h","a","r","l","e","s"," ","r","i","v","e","r"," ","l","a","b","o","r","a","t","o","r","i","e","s">>,
      <<"w","u","x","i"," ","a","p","p","t","e","c">>, <<"c","a","t","a","l","e","n","t">>,
      <<"l","o","n","z","a">>,
      <<"s","a","m","s","u","n","g"," ","b","i","o","l","o","g","i","c","s">>,
      <<"b","o","e","h","r","i","n","g","e","r"," ","i","n","g","e","l","h","e","i","m">>,
      <<"f","u","j","i","f","i","l","m"," ","d","i","o","s","y","n","t","h">>,
      <<"p","a","t","h","e","o","n">> }

_load_biotech_keywords ==
    { <<"p","h","a","r","m","a","c","e","u","t","i","c","a","l","s">>,
      <<"p","h","a","r","m","a">>, <<"t","h","e","r","a","p","e","u","t","i","c","s">>,
      <<"b","i","o","s","c","i","e","n","c","e","s">>,
      <<"b","i","o","t","e","c","h","n","o","l","o","g","y">>, <<"b","i","o","t","e","c","h">>,
      <<"b","i","o","p","h","a","r","m","a">>,
      <<"b","i","o","p","h","a","r","m","a","c","e","u","t","i","c","a","l","s">>,
      <<"m","e","d","i","c","i","n","e","s">>, <<"d","r","u","g","s">>, <<"i","n","c",".">>,
      <<"c","o","r","p",".">>, <<"c","o","r","p","o","r","a","t","i","o","n">>,
      <<"l","t","d",".">>, <<"l","i","m","i","t","e","d">>, <<"c","o","m","p","a","n","y">>,
      <<"c","o",".">>, <<"l","a","b","o","r","a","t","o","r","i","e","s">>, <<"l","a","b","s">>,
      <<"r","e","s","e","a","r","c","h">>, <<"d","e","v","e","l","o","p","m","e","n","t">>,
      <<"c","l","i","n","i","c","a","l">>, <<"t","r","i","a","l","s">>, <<"c","r","o">>,
      <<"c","o","n","t","r","a","c","t"," ","r","e","s","e","a","r","c","h">> }

_load_academic_keywords ==
    { <<"u","n","i","v","e","r","s","i","t","y">>, <<"c","o","l","l","e","g","e">>,
      <<"s","c","h","o","o","l">>, <<"i","n","s","t","i","t","u","t","e">>,
      <<"i","n","s","t","i","t","u","t","i","o","n">>, <<"h","o","s","p","i","t","a","l">>,
      <<"m","e","d","i","c","a","l"," ","c","e","n","t","e","r">>,
      <<"h","e","a","l","t","h"," ","s","y","s","t","e","m">>, <<"c","l","i","n","i","c">>,
      <<"d","e","p","a","r","t","m","e","n","t">>, <<"f","a","c","u","l","t","y">>,
      <<"d","i","v","i","s","i","o","n">>, <<"c","e","n","t","e","r"," ","f","o","r">>,
      <<"c","e","n","t","r","e"," ","f","o","r">>,
      <<"n","a","t","i","o","n","a","l"," ","i","n","s","t","i","t","u","t","e","s">>,
      <<"n","i","h">>, <<"n","s","f">>, <<"g","o","v","e","r","n","m","e","n","t">>,
      <<"p","u","b","l","i","c"," ","h","e","a","l","t","h">>,
      <<"m","i","n","i","s","t","r","y"," ","o","f"," ","h","e","a","l","t","h">>,
      <<"v","e","t","e","r","a","n","s"," ","a","f","f","a","i","r","s">>,
      <<"v","a"," ","m","e","d","i","c","a","l">> }

\* {company.lower() for company in companies}
_load_pharma_companies == {lower(company) : company \in companies}

\* CompanyIdentifier.__init__: the three tables as attributes of the
\* identifier the methods below are called on
CompanyIdentifierInit ==
    tables = [pharma_companies |-> _load_pharma_companies,
              biotech_keywords |-> _load_biotech_keywords,
              academic_keywords |-> _load_academic_keywords]

pharma_companies == tables.pharma_companies

biotech_keywords == tables.biotech_keywords

academic_keywords == tables.academic_keywords

-----------------------------------------------------------------------------
(* Values that are not a str.  None is the None of an Optional[str];       *)
(* Malformed stands for a value of another type that is true in a          *)
(* condition and has no str methods (a list of affiliations, a number).    *)

None == <<"None">>

Malformed == <<"Malformed">>

\* bool(x): None and the empty str are false
Truthy(x) == x # None /\ x # <<>>

\* x has the str methods (lower, join accepts it)
IsStr(x) == x # None /\ x # Malformed

-----------------------------------------------------------------------------
(* CompanyIdentifier.is_non_academic_affiliation *)

domains == { <<".","e","d","u">>, <<".","a","c",".">>, <<".","g","o","v">> }

\* mutant: the company signals are tested before the academic keywords
is_non_academic_affiliation_company_first(aff) ==
    IF ~ Truthy(aff) THEN FALSE
    ELSE LET affiliation_lower == lower(aff) IN
         IF \E keyword \in biotech_keywords : Contains(keyword, affiliation_lower)
         THEN TRUE
         ELSE IF \E company \in pharma_companies : Contains(company, affiliation_lower)
         THEN TRUE
         ELSE IF \E keyword \in academic_keywords : Contains(keyword, affiliation_lower)
         THEN FALSE
         ELSE IF /\ Contains(<<"@">>, aff)
                 /\ ~ \E domain \in domains : Contains(domain, lower(aff))
         THEN TRUE
         ELSE FALSE

\* mutant: the e-mail heuristic is missing
is_non_academic_affiliation_no_email_rule(aff) ==
    IF ~ Truthy(aff) THEN FALSE
    ELSE LET affiliation_lower == lower(aff) IN
         IF \E keyword \in academic_keywords : Contains(keyword, affiliation_lower)
         THEN FALSE
         ELSE IF \E keyword \in biotech_keywords : Contains(keyword, affiliation_lower)
         THEN TRUE
         ELSE IF \E company \in pharma_companies : Contains(company, affiliation_lower)
         THEN TRUE
         ELSE FALSE

\* mutant: the e-mail heuristic does not ask for '@'
is_non_academic_affiliation_no_at_check(aff) ==
    IF ~ Truthy(aff) THEN FALSE
    ELSE LET affiliation_lower == lower(aff) IN
         IF \E keyword \in academic_keywords : Contains(keyword, affiliation_lower)
         THEN FALSE
         ELSE IF \E keyword \in biotech_keywords : Contains(keyword, affiliation_lower)
         THEN TRUE
         ELSE IF \E company \in pharma_companies : Contains(company, affiliation_lower)
         THEN TRUE
         ELSE IF ~ \E domain \in domains : Contains(domain, lower(aff))
         THEN TRUE
         ELSE FALSE

\* the call raises AttributeError: `if not affiliation` lets the value
\* through and affiliation.lower() does not exist
is_non_academic_affiliation_raises(aff) == Truthy(aff) /\ ~ IsStr(aff)

is_non_academic_affiliation(aff) ==
    IF ~ Truthy(aff) THEN FALSE
    ELSE LET affiliation_lower == lower(aff) IN
         IF \E keyword \in academic_keywords : Contains(keyword, affiliation_lower)
         THEN FALSE
         ELSE IF \E keyword \in biotech_keywords : Contains(keyword, affiliation_lower)
         THEN TRUE
         ELSE IF \E company \in pharma_companies : Contains(company, affiliation_lower)
         THEN TRUE
         ELSE IF /\ Contains(<<"@">>, aff)
                 /\ ~ \E domain \in domains : Contains(domain, lower(aff))
         THEN TRUE
         ELSE FALSE

-----------------------------------------------------------------------------
(* CompanyIdentifier.identify_companies and its helpers.                   *)
(* A confidence is held in tenths (0.8 is 8): the float values the code    *)
(* can produce, 0.6000000000000001, 0.7, 0.8, 0.9, 1.0 and the literal     *)
(* 0.6, order as their tenths do, and an exact match never meets a         *)
(* keyword match in one result.                                            *)

CompanyMatch(name, conf, type) ==
    [company_name |-> name, confidence |-> conf, match_type |-> type]

Min(a, b) == IF a <= b THEN a ELSE b

Max(a, b) == IF a >= b THEN a ELSE b

\* mutant: bonuses of 0.2 and no clamp
_calculate_confidence_unclamped(aff, company) ==
    LET base == 8
        longer == IF Len(company) > 10 THEN base + 2 ELSE base
        leading == IF startswith(aff, company) THEN longer + 2 ELSE longer
    IN  IF \E keyword \in academic_keywords : Contains(keyword, aff)
        THEN leading - 2 ELSE leading

\* mutant: an academic keyword costs 0.4
_calculate_confidence_heavy_penalty(aff, company) ==
    LET base == 8
        longer == IF Len(company) > 10 THEN base + 1 ELSE base
        leading == IF startswith(aff, company) THEN longer + 1 ELSE longer
        penalised == IF \E keyword \in academic_keywords : Contains(keyword, aff)
                     THEN leading - 4 ELSE leading
    IN  Min(10, Max(1, penalised))

\* aff is the lower-cased affiliation
_calculate_confidence(aff, company) ==
    LET base == 8
        longer == IF Len(company) > 10 THEN base + 1 ELSE base
        leading == IF startswith(aff, company) THEN longer + 1 ELSE longer
        penalised == IF \E keyword \in academic_keywords : Contains(keyword, aff)
                     THEN leading - 2 ELSE leading
    IN  Min(10, Max(1, penalised))

\* \w and \s of the re module, on the characters of the model
IsWord(c) ==
    \/ IsLower(c)
    \/ IsUpper(c)
    \/ c \in {Digits[i] : i \in 1..10}
    \/ c = "_"

IsSpace(c) == c \in {" ", "\t", "\n", "\r"}

\* the alternation (pharmaceuticals|pharma|therapeutics|biotech|biosciences),
\* in the order the pattern tries it
suffixes ==
    << <<"p","h","a","r","m","a","c","e","u","t","i","c","a","l","s">>,
       <<"p","h","a","r","m","a">>,
       <<"t","h","e","r","a","p","e","u","t","i","c","s">>,
       <<"b","i","o","t","e","c","h">>,
       <<"b","i","o","s","c","i","e","n","c","e","s">> >>

\* s has suffixes[k] at position p
SuffixAt(s, p, k) ==
    /\ p + Len(suffixes[k]) - 1 <= Len(s)
    /\ SubSeq(s, p, p + Len(suffixes[k]) - 1) = suffixes[k]

\* index of the last character of the alternation matched at p, 0 when none
SuffixEnd(s, p) ==
    IF \E k \in 1..Len(suffixes) : SuffixAt(s, p, k)
    THEN LET k == CHOOSE k \in 1..Len(suffixes) :
                      /\ SuffixAt(s, p, k)
                      /\ \A j \in 1..(k-1) : ~ SuffixAt(s, p, j)
         IN  p + Len(suffixes[k]) - 1
    ELSE 0

\* index of the last character of the run of \w (IsWord) or \s that holds
\* position p; p - 1 when s[p] is not of that kind
RECURSIVE WordRunEnd(_, _)
WordRunEnd(s, p) ==
    IF p <= Len(s) /\ IsWord(s[p]) THEN WordRunEnd(s, p + 1) ELSE p - 1

RECURSIVE SpaceRunEnd(_, _)
SpaceRunEnd(s, p) ==
    IF p <= Len(s) /\ IsSpace(s[p]) THEN SpaceRunEnd(s, p + 1) ELSE p - 1

\* re.match of pharma_pattern at position p: the index of the last character
\* of the match, 0 when there is none.  \w+ and \s+ take whole runs (a
\* shorter one is followed by a character of its own kind), and the greedy
\* (?:\s+\w+)* gives up a word only when nothing matches after it.
RECURSIVE MatchEnd(_, _)
MatchEnd(s, p) ==
    IF p > Len(s) \/ ~ IsWord(s[p]) THEN 0
    ELSE LET q == WordRunEnd(s, p)
             r == SpaceRunEnd(s, q + 1)
         IN  IF r = q \/ r = Len(s) \/ ~ IsWord(s[r + 1]) THEN 0
             ELSE LET later == MatchEnd(s, r + 1)
                  IN  IF later # 0 THEN later ELSE SuffixEnd(s, r + 1)

\* re.finditer(pharma_pattern, s) from position pos: the matched texts,
\* leftmost first, each search starting where the last match ended
RECURSIVE finditer(_, _)
finditer(s, pos) ==
    IF pos > Len(s) THEN <<>>
    ELSE LET e == MatchEnd(s, pos)
         IN  IF e # 0 THEN <<SubSeq(s, pos, e)>> \o finditer(s, e + 1)
             ELSE finditer(s, pos + 1)

_find_keyword_matches(aff) ==
    LET affiliation_lower == lower(aff)
        found == finditer(affiliation_lower, 1)
    IN  [i \in 1..Len(found) |-> CompanyMatch(title(found[i]), 6, "keyword")]

\* mutant: every match is kept
unique_matches_keeps_all(ms, acc) == acc \o ms

\* the unique_matches dict, in insertion order: a later match of a name
\* already held replaces it in place when its confidence is greater
RECURSIVE unique_matches(_, _)
unique_matches(ms, acc) ==
    IF ms = <<>> THEN acc
    ELSE LET match == Head(ms)
             key == lower(match.company_name)
             held == {j \in 1..Len(acc) : lower(acc[j].company_name) = key}
         IN  IF held = {} THEN unique_matches(Tail(ms), Append(acc, match))
             ELSE LET j == CHOOSE j \in held : TRUE
                  IN  IF match.confidence > acc[j].confidence
                      THEN unique_matches(Tail(ms), [acc EXCEPT ![j] = match])
                      ELSE unique_matches(Tail(ms), acc)

\* sorted(ms, key=lambda x: x.confidence, reverse=True): stable
RECURSIVE sorted_by_confidence(_)
sorted_by_confidence(ms) ==
    IF ms = <<>> THEN <<>>
    ELSE LET rest == sorted_by_confidence(SubSeq(ms, 1, Len(ms) - 1))
             last == ms[Len(ms)]
             n == Cardinality({j \in 1..Len(rest) : rest[j].confidence >= last.confidence})
         IN  SubSeq(rest, 1, n) \o <<last>> \o SubSeq(rest, n + 1, Len(rest))

\* the known companies found in the lower-cased affiliation
found_companies(affiliation_lower) ==
    {company \in pharma_companies : Contains(company, affiliation_lower)}

\* the orders in which iterating a set can yield its elements
Orders(S) ==
    {order \in [1..Cardinality(S) -> S] : \A i, j \in 1..Cardinality(S) :
                                               order[i] = order[j] => i = j}

\* mutant: the keyword pass runs whatever the exact pass found
identify_companies_always_keyword(aff, order) ==
    IF ~ Truthy(aff) THEN <<>>
    ELSE LET affiliation_lower == lower(aff)
             exact == [i \in 1..Len(order) |->
                          CompanyMatch(title(order[i]),
                                       _calculate_confidence(affiliation_lower, order[i]),
                                       "exact")]
             all == exact \o _find_keyword_matches(aff)
         IN  sorted_by_confidence(unique_matches(all, <<>>))

\* mutant: an academic keyword in the affiliation suppresses the exact pass
identify_companies_academic_excludes(aff, order) ==
    IF ~ Truthy(aff) THEN <<>>
    ELSE LET affiliation_lower == lower(aff)
             exact ==
                 IF \E keyword \in academic_keywords : Contains(keyword, affiliation_lower)
                 THEN <<>>
                 ELSE [i \in 1..Len(order) |->
                          CompanyMatch(title(order[i]),
                                       _calculate_confidence(affiliation_lower, order[i]),
                                       "exact")]
             all == IF exact = <<>> THEN exact \o _find_keyword_matches(aff) ELSE exact
         IN  sorted_by_confidence(unique_matches(all, <<>>))

\* mutant: no `if not affiliation` before affiliation.lower()
identify_companies_raises_unguarded(aff) == ~ IsStr(aff)

\* the call raises AttributeError: `if not affiliation` lets the value
\* through and affiliation.lower() does not exist
identify_companies_raises(aff) == Truthy(aff) /\ ~ IsStr(aff)

\* order: the found companies in the order the iteration of the
\* pharma_companies set yields them
identify_companies(aff, order) ==
    IF ~ Truthy(aff) THEN <<>>
    ELSE LET affiliation_lower == lower(aff)
             exact == [i \in 1..Len(order) |->
                          CompanyMatch(title(order[i]),
                                       _calculate_confidence(affiliation_lower, order[i]),
                                       "exact")]
             all == IF exact = <<>> THEN exact \o _find_keyword_matches(aff) ELSE exact
         IN  sorted_by_confidence(unique_matches(all, <<>>))

extract_company_names(ms, min_confidence) ==
    LET kept == SelectSeq(ms, LAMBDA match : match.confidence >= min_confidence)
    IN  [i \in 1..Len(kept) |-> kept[i].company_name]

-----------------------------------------------------------------------------
(* csv_writer.py: PaperRecord, CSVWriter._process_paper,                   *)
(* CSVWriter.filter_and_convert_papers.  An Optional[str] that is None is  *)
(* the value None; a missing PaperRecord is NoRecord.                      *)

NoRecord == [none |-> TRUE]

\* None in the place of a Paper
NoPaper == [none |-> TRUE]

Author(name, aff, email, is_corresponding) ==
    [name |-> name, affiliation |-> aff, email |-> email,
     is_corresponding |-> is_corresponding]

Paper(pubmed_id, title_, publication_date, authors) ==
    [pubmed_id |-> pubmed_id, title |-> title_,
     publication_date |-> publication_date, authors |-> authors]

PaperRecord(pubmed_id, title_, publication_date, authors_, affiliations_, email_) ==
    [pubmed_id |-> pubmed_id, title |-> title_,
     publication_date |-> publication_date,
     non_academic_authors |-> authors_,
     company_affiliations |-> affiliations_,
     corresponding_author_email |-> email_]

Ascii ==
    << " ","!","\"","#","$","%","&","'","(",")","*","+",",","-",".","/",
       "0","1","2","3","4","5","6","7","8","9",":",";","<","=",">","?",
       "@","A","B","C","D","E","F","G","H","I","J","K","L","M","N","O",
       "P","Q","R","S","T","U","V","W","X","Y","Z","[","\\","]","^","_",
       "grave","a","b","c","d","e","f","g","h","i","j","k","l","m","n","o",
       "p","q","r","s","t","u","v","w","x","y","z","{","|","}","~" >>

\* ord(c); "grave" holds the place of code point 96, which a string of
\* the module cannot hold
ord == [c \in {Ascii[i] : i \in 1..Len(Ascii)} |->
           31 + (CHOOSE i \in 1..Len(Ascii) : Ascii[i] = c)]

\* a < b on str: by code point, a proper prefix first
str_less(a, b) ==
    \E k \in 1..(Min(Len(a), Len(b)) + 1) :
        /\ \A j \in 1..(k-1) : a[j] = b[j]
        /\ \/ k > Len(a) /\ k <= Len(b)
           \/ k <= Len(a) /\ k <= Len(b) /\ ord[a[k]] < ord[b[k]]

\* mutant: sorted(S, reverse=True)
RECURSIVE sorted_reversed(_)
sorted_reversed(S) ==
    IF S = {} THEN <<>>
    ELSE LET greatest == CHOOSE x \in S : \A y \in S \ {x} : str_less(y, x)
         IN  <<greatest>> \o sorted_reversed(S \ {greatest})

\* sorted(S) of a set of str
RECURSIVE sorted(_)
sorted(S) ==
    IF S = {} THEN <<>>
    ELSE LET least == CHOOSE x \in S : \A y \in S \ {x} : str_less(x, y)
         IN  <<least>> \o sorted(S \ {least})

\* sep.join(items)
RECURSIVE join(_, _)
join(sep, items) ==
    IF items = <<>> THEN <<>>
    ELSE IF Len(items) = 1 THEN items[1]
    ELSE items[1] \o sep \o join(sep, Tail(items))

\* mutant: the first email met is kept, corresponding or not
next_email_first_wins(corresponding_email, author) ==
    IF Truthy(author.email) /\ ~ Truthy(corresponding_email)
    THEN author.email
    ELSE corresponding_email

\* mutant: a plain email replaces the email held
next_email_last_wins(corresponding_email, author) ==
    IF author.is_corresponding /\ Truthy(author.email)
    THEN author.email
    ELSE IF Truthy(author.email)
    THEN author.email
    ELSE corresponding_email

\* lines 70-74: corresponding_email after this author
next_email(corresponding_email, author) ==
    IF author.is_corresponding /\ Truthy(author.email)
    THEN author.email
    ELSE IF Truthy(author.email) /\ ~ Truthy(corresponding_email)
    THEN author.email
    ELSE corresponding_email

\* mutant: every author with an affiliation counts as non-academic
author_step_unclassified(acc, author, order) ==
    IF author.affiliation # <<>>
    THEN LET company_matches == identify_companies(author.affiliation, order)
             names == extract_company_names(company_matches, 5)
         IN  [non_academic_authors |-> Append(acc.non_academic_authors, author.name),
              company_affiliations |->
                  acc.company_affiliations \cup {names[k] : k \in 1..Len(names)},
              corresponding_email |-> next_email(acc.corresponding_email, author)]
    ELSE [acc EXCEPT !.corresponding_email = next_email(acc.corresponding_email, author)]

\* mutant: the name is put in front of the names held
author_step_prepends(acc, author, order) ==
    IF is_non_academic_affiliation(author.affiliation)
    THEN LET company_matches == identify_companies(author.affiliation, order)
             names == extract_company_names(company_matches, 5)
         IN  [non_academic_authors |-> <<author.name>> \o acc.non_academic_authors,
              company_affiliations |->
                  acc.company_affiliations \cup {names[k] : k \in 1..Len(names)},
              corresponding_email |-> next_email(acc.corresponding_email, author)]
    ELSE [acc EXCEPT !.corresponding_email = next_email(acc.corresponding_email, author)]

\* the body of `for author in paper.authors`; acc holds
\* non_academic_authors, company_affiliations and corresponding_email.
\* order: the order in which identify_companies meets the known companies
\* of the author's affiliation.
author_step(acc, author, order) ==
    IF is_non_academic_affiliation(author.affiliation)
    THEN LET company_matches == identify_companies(author.affiliation, order)
             names == extract_company_names(company_matches, 5)
         IN  [non_academic_authors |-> Append(acc.non_academic_authors, author.name),
              company_affiliations |->
                  acc.company_affiliations \cup {names[k] : k \in 1..Len(names)},
              corresponding_email |-> next_email(acc.corresponding_email, author)]
    ELSE [acc EXCEPT !.corresponding_email = next_email(acc.corresponding_email, author)]

\* the loop from author i on
RECURSIVE author_loop(_, _, _, _)
author_loop(authors, orders, i, acc) ==
    IF i > Len(authors) THEN acc
    ELSE author_loop(authors, orders, i + 1, author_step(acc, authors[i], orders[i]))

\* an exception that leaves a method
Raised(exception) == [raised |-> exception]

\* paper.authors raises AttributeError on a paper that is None, and so
\* does affiliation.lower() in the classifier on an affiliation that is
\* true and not a str
loop_raises(paper) ==
    \/ paper = NoPaper
    \/ \E i \in 1..Len(paper.authors) :
           is_non_academic_affiliation_raises(paper.authors[i].affiliation)

\* "; ".join(non_academic_authors) raises TypeError on a name that is not a
\* str
join_raises(non_academic_authors) ==
    \E i \in 1..Len(non_academic_authors) : ~ IsStr(non_academic_authors[i])

\* mutant: no try/except around the body
_process_paper_no_except(paper, orders) ==
    IF loop_raises(paper) THEN Raised("AttributeError")
    ELSE LET acc == author_loop(paper.authors, orders, 1,
                        [non_academic_authors |-> <<>>,
                         company_affiliations |-> {},
                         corresponding_email |-> <<>>])
         IN  IF acc.non_academic_authors = <<>> THEN NoRecord
             ELSE IF join_raises(acc.non_academic_authors) THEN Raised("TypeError")
             ELSE PaperRecord(paper.pubmed_id, paper.title, paper.publication_date,
                              join(<<";"," ">>, acc.non_academic_authors),
                              join(<<";"," ">>, sorted(acc.company_affiliations)),
                              acc.corresponding_email)

\* `except Exception` returns None after logging paper.pubmed_id, and that
\* read raises AttributeError in the handler when the paper is None
_process_paper(paper, orders) ==
    IF loop_raises(paper)
    THEN IF paper = NoPaper THEN Raised("AttributeError") ELSE NoRecord
    ELSE LET acc == author_loop(paper.authors, orders, 1,
                        [non_academic_authors |-> <<>>,
                         company_affiliations |-> {},
                         corresponding_email |-> <<>>])
         IN  IF acc.non_academic_authors = <<>> THEN NoRecord
             ELSE IF join_raises(acc.non_academic_authors) THEN NoRecord
             ELSE PaperRecord(paper.pubmed_id, paper.title, paper.publication_date,
                              join(<<";"," ">>, acc.non_academic_authors),
                              join(<<";"," ">>, sorted(acc.company_affiliations)),
                              acc.corresponding_email)

\* `if record and record.non_academic_authors`
keeps(record) == record # NoRecord /\ record.non_academic_authors # <<>>

\* the iteration orders identify_companies can meet, one per author
RECURSIVE paper_orders(_)
paper_orders(authors) ==
    IF authors = <<>> THEN {<<>>}
    ELSE LET first == Orders(found_companies(lower(Head(authors).affiliation)))
             rest == paper_orders(Tail(authors))
         IN  {<<order>> \o others : order \in first, others \in rest}

-----------------------------------------------------------------------------
(* inputs *)

MaxParts == 3

Fragments ==
    { <<"P","f","i","z","e","r">>,
      <<"B","o","e","h","r","i","n","g","e","r"," ","I","n","g","e","l","h","e","i","m">>,
      <<" ","M","e","r","c","k">>,
      <<" ","U","n","i","v","e","r","s","i","t","y">>,
      <<" ","A","c","m","e">>,
      <<" ","A","c","m","e"," ","P","h","a","r","m","a">>,
      <<" ","T","h","e","r","a","p","e","u","t","i","c","s">>,
      <<" ","R","e","s","e","a","r","c","h">>,
      <<"@">>,
      <<".","e","d","u">> }

RECURSIVE Concat(_)
Concat(parts) ==
    IF parts = <<>> THEN <<>> ELSE Head(parts) \o Concat(Tail(parts))

\* the affiliation strings of the classifier and matcher calls: up to
\* MaxParts fragments, one after the other
Affiliations ==
    UNION { {Concat(parts) : parts \in [1..n -> Fragments]} : n \in 0..MaxParts }

MaxAuthors == 3

MaxPapers == 3

JaneDoe == <<"J","a","n","e"," ","D","o","e">>

BobLee == <<"B","o","b"," ","L","e","e">>

PfizerInc == <<"P","f","i","z","e","r"," ","I","n","c",".">>

RochePharma == <<"R","o","c","h","e"," ","P","h","a","r","m","a">>

NovartisLilly ==
    <<"N","o","v","a","r","t","i","s"," ","P","h","a","r","m","a",","," ",
      "E","l","i"," ","L","i","l","l","y">>

PfizerUniversityHospital ==
    <<"P","f","i","z","e","r"," ","U","n","i","v","e","r","s","i","t","y"," ",
      "H","o","s","p","i","t","a","l">>

EmailA == <<"a","@","x",".","c","o","m">>

EmailB == <<"b","@","y",".","o","r","g">>

\* how an author is reached: <<email, is_corresponding>>
Contacts ==
    { <<None, TRUE>>, <<EmailA, FALSE>>, <<EmailB, FALSE>>,
      <<EmailA, TRUE>>, <<EmailB, TRUE>> }

\* a named company author and a named hospital author with every contact,
\* and a company author whose name is empty
Authors ==
    {Author(JaneDoe, PfizerInc, how[1], how[2]) : how \in Contacts}
    \cup {Author(BobLee, PfizerUniversityHospital, how[1], how[2]) : how \in Contacts}
    \cup {Author(<<>>, RochePharma, None, FALSE), Author(<<>>, RochePharma, EmailA, FALSE)}

AuthorLists == UNION {[1..n -> Authors] : n \in 0..MaxAuthors}

\* author data that makes the processing of a paper fail: a company
\* author whose name is None, an author whose affiliation is not a str
MalformedAuthors ==
    << Author(None, PfizerInc, None, FALSE),
       Author(JaneDoe, Malformed, None, FALSE) >>

\* a company author and a hospital author, both well formed
GoodAuthors ==
    << Author(JaneDoe, PfizerInc, EmailA, TRUE),
       Author(BobLee, PfizerUniversityHospital, None, FALSE) >>

\* s with x put in at position i
InsertAt(s, i, x) == SubSeq(s, 1, i - 1) \o <<x>> \o SubSeq(s, i, Len(s))

\* the papers whose processing fails: a malformed author before, between
\* and after the good ones
FailingPapers ==
    { Paper("5", "T5", "2024-05-01", InsertAt(GoodAuthors, 1, MalformedAuthors[2])),
      Paper("6", "T6", "2024-06-01", InsertAt(GoodAuthors, 2, MalformedAuthors[1])),
      Paper("7", "T7", "2024-07-01", InsertAt(GoodAuthors, 3, MalformedAuthors[2])),
      Paper("8", "T8", "2024-08-01", InsertAt(GoodAuthors, 3, MalformedAuthors[1])) }

\* the papers of one search result: academic authors only, a named
\* company author, an unnamed company author, authors of several
\* companies, papers that fail, and an entry that is None in place of a
\* Paper
BatchPapers ==
    { Paper("1", "T1", "2024-01-15",
            <<Author(BobLee, PfizerUniversityHospital, EmailA, TRUE)>>),
      Paper("2", "T2", "2024-02-01",
            <<Author(BobLee, PfizerUniversityHospital, EmailA, FALSE),
              Author(JaneDoe, PfizerInc, EmailB, TRUE)>>),
      Paper("3", "T3", "2024-03-01",
            <<Author(<<>>, NovartisLilly, None, FALSE)>>),
      Paper("9", "T9", "2024-09-01",
            <<Author(JaneDoe, NovartisLilly, EmailA, FALSE),
              Author(BobLee, PfizerUniversityHospital, EmailB, TRUE),
              Author(<<>>, RochePharma, None, FALSE)>>) }
    \cup FailingPapers \cup {NoPaper}

\* up to MaxPapers distinct BatchPapers
BatchLists ==
    UNION {{batch \in [1..n -> BatchPapers] :
               \A i, j \in 1..n : batch[i] = batch[j] => i = j} : n \in 0..MaxPapers}

\* the arguments of filter_and_convert_papers: one paper with any authors,
\* or a batch
PaperLists ==
    {<<Paper("4", "T4", "2024-04-01", authors)>> : authors \in AuthorLists}
    \cup BatchLists

-----------------------------------------------------------------------------
(* calls of the CompanyIdentifier methods on one affiliation *)

\* no call of fetch_papers
FetcherIdle ==
    /\ query = ""
    /\ max_results = 0
    /\ fetch_pc = "idle"
    /\ pubmed_ids = <<>>
    /\ batch_start = 0
    /\ all_papers = <<>>
    /\ requests = <<>>
    /\ calls = <<>>
    /\ result = <<>>

InitIdentifier ==
    /\ affiliation \in Affiliations \cup {None}
    /\ called = {}
    /\ non_academic = FALSE
    /\ matches = <<>>
    /\ company_names = <<>>
    /\ raised = ""
    /\ papers = <<>>
    /\ pc = "idle"
    /\ idx = 0
    /\ records = <<>>
    /\ FetcherIdle
    /\ CompanyIdentifierInit

IsNonAcademicAffiliation ==
    /\ called = {}
    /\ IF is_non_academic_affiliation_raises(affiliation)
       THEN raised' = "AttributeError" /\ UNCHANGED non_academic
       ELSE raised' = "" /\ non_academic' = is_non_academic_affiliation(affiliation)
    /\ called' = called \cup {"is_non_academic_affiliation"}
    /\ UNCHANGED <<affiliation, matches, company_names, writer_vars, fetcher_vars, tables>>

IdentifyCompanies ==
    /\ called = {}
    /\ IF identify_companies_raises(affiliation)
       THEN raised' = "AttributeError" /\ UNCHANGED matches
       ELSE /\ raised' = ""
            /\ \E order \in Orders(found_companies(lower(affiliation))) :
                   matches' = identify_companies(affiliation, order)
    /\ called' = called \cup {"identify_companies"}
    /\ UNCHANGED <<affiliation, non_academic, company_names, writer_vars, fetcher_vars, tables>>

\* extract_company_names(matches) with the default min_confidence=0.5
ExtractCompanyNames ==
    /\ "identify_companies" \in called
    /\ "extract_company_names" \notin called
    /\ raised = ""
    /\ company_names' = extract_company_names(matches, 5)
    /\ called' = called \cup {"extract_company_names"}
    /\ UNCHANGED <<affiliation, non_academic, matches, raised, writer_vars, fetcher_vars, tables>>

NextIdentifier ==
    \/ IsNonAcademicAffiliation
    \/ IdentifyCompanies
    \/ ExtractCompanyNames

SpecIdentifier == InitIdentifier /\ [][NextIdentifier]_vars

-----------------------------------------------------------------------------
(* CSVWriter.filter_and_convert_papers(papers) *)

InitWriter ==
    /\ affiliation = <<>>
    /\ called = {}
    /\ non_academic = FALSE
    /\ matches = <<>>
    /\ company_names = <<>>
    /\ raised = ""
    /\ papers \in PaperLists
    /\ pc = "loop"
    /\ idx = 0
    /\ records = <<>>
    /\ FetcherIdle
    /\ CompanyIdentifierInit

\* one iteration of `for paper in papers`; an exception that leaves
\* _process_paper leaves filter_and_convert_papers too
\* mutant: the identifier keeps the affiliations it has seen as companies
ProcessPaper_learns ==
    /\ pc = "loop"
    /\ idx < Len(papers)
    /\ LET paper == papers[idx + 1] IN
       \E orders \in paper_orders(IF paper = NoPaper THEN <<>> ELSE paper.authors) :
           \E record \in {_process_paper(paper, orders)} :
               IF "raised" \in DOMAIN record
               THEN /\ raised' = record.raised
                    /\ pc' = "raised"
                    /\ UNCHANGED <<idx, records, tables>>
               ELSE /\ records' = IF keeps(record) THEN Append(records, record)
                                  ELSE records
                    /\ idx' = idx + 1
                    /\ tables' = [tables EXCEPT !.pharma_companies =
                                      @ \cup {lower(paper.authors[i].affiliation) :
                                                  i \in 1..Len(paper.authors)}]
                    /\ UNCHANGED <<raised, pc>>
    /\ UNCHANGED <<affiliation, called, non_academic, matches, company_names, papers,
                   fetcher_vars>>

ProcessPaper ==
    /\ pc = "loop"
    /\ idx < Len(papers)
    /\ LET paper == papers[idx + 1] IN
       \E orders \in paper_orders(IF paper = NoPaper THEN <<>> ELSE paper.authors) :
           \E record \in {_process_paper(paper, orders)} :
               IF "raised" \in DOMAIN record
               THEN /\ raised' = record.raised
                    /\ pc' = "raised"
                    /\ UNCHANGED <<idx, records>>
               ELSE /\ records' = IF keeps(record) THEN Append(records, record)
                                  ELSE records
                    /\ idx' = idx + 1
                    /\ UNCHANGED <<raised, pc>>
    /\ UNCHANGED <<affiliation, called, non_academic, matches, company_names, papers,
                   fetcher_vars, tables, tables>>

\* `return records`
Return ==
    /\ pc = "loop"
    /\ idx = Len(papers)
    /\ pc' = "done"
    /\ UNCHANGED <<identifier_vars, papers, idx, records, fetcher_vars, tables>>

NextWriter ==
    \/ ProcessPaper
    \/ Return

SpecWriter == InitWriter /\ [][NextWriter]_vars

\* filter_and_convert_papers on the papers of one search result
InitBatch ==
    /\ InitWriter
    /\ papers \in BatchLists

SpecBatch == InitBatch /\ [][NextWriter]_vars

-----------------------------------------------------------------------------
(* PubMedPharmaFetcher.fetch_papers(query, max_results) with its           *)
(* collaborators PubMedClient.search_papers, PubMedClient                  *)
(* .fetch_paper_details and CSVWriter.filter_and_convert_papers.  The      *)
(* PubMed server is the environment: it answers a search with an error or  *)
(* a list of ids, and an efetch request with an error, with XML that does  *)
(* not parse, or with articles.  An id is the number of its place in the   *)
(* search result.                                                          *)

MaxIds == 41

max_results_default == 100

batch_size == 20

Queries == {"cancer", "diabetes[Title]"}

\* max_results as the caller gives it: left out, or a number
GivenMaxResults == {<<>>, <<MaxIds \div 2 + 1>>}

\* the paper the server holds for an id: a company author for an odd id,
\* an author without affiliation for an even one
PaperOf(id) ==
    Paper(id, "T", "2024-01-15",
          IF id % 2 = 1 THEN <<Author(JaneDoe, PfizerInc, None, FALSE)>>
          ELSE <<Author(BobLee, <<>>, None, FALSE)>>)

\* the answers to an efetch request: the request fails, the XML does not
\* parse, every article parses, the first article has no PMID
Responses == {"RequestException", "ParseError", "ok", "no PMID"}

\* pubmed_ids[i:i + batch_size]
batch_slice(ids, i) ==
    SubSeq(ids, i + 1, Min(i + batch_size, Len(ids)))

\* _parse_paper_details(response.content) for the batch
_parse_paper_details(batch, response) ==
    IF response = "ParseError" THEN <<>>
    ELSE IF response = "no PMID"
    THEN [k \in 1..(Len(batch) - 1) |-> PaperOf(batch[k + 1])]
    ELSE [k \in 1..Len(batch) |-> PaperOf(batch[k])]

Call(method, args) == [method |-> method, args |-> args]

InitFetcher ==
    /\ affiliation = <<>>
    /\ called = {}
    /\ non_academic = FALSE
    /\ matches = <<>>
    /\ company_names = <<>>
    /\ raised = ""
    /\ papers = <<>>
    /\ pc = "idle"
    /\ idx = 0
    /\ records = <<>>
    /\ query \in Queries
    /\ \E given \in GivenMaxResults :
           max_results = IF given = <<>> THEN max_results_default ELSE given[1]
    /\ fetch_pc = "start"
    /\ pubmed_ids = <<>>
    /\ batch_start = 0
    /\ all_papers = <<>>
    /\ requests = <<>>
    /\ calls = <<>>
    /\ result = <<>>
    /\ CompanyIdentifierInit

\* pubmed_ids = self.pubmed_client.search_papers(query, max_results): the
\* request or the parse fails and fetch_papers raises the exception again,
\* or the server answers with up to max_results ids
SearchPapers ==
    /\ fetch_pc = "start"
    /\ calls' = Append(calls, Call("search_papers", <<query, max_results>>))
    /\ \/ \E exception \in {"RequestException", "ParseError"} :
              /\ raised' = exception
              /\ fetch_pc' = "raised"
              /\ UNCHANGED pubmed_ids
       \/ \E n \in 0..Min(MaxIds, max_results) :
              /\ pubmed_ids' = [k \in 1..n |-> k]
              /\ fetch_pc' = "searched"
              /\ UNCHANGED raised
    /\ UNCHANGED <<affiliation, called, non_academic, matches, company_names,
                   writer_vars, query, max_results, batch_start, all_papers,
                   requests, result, tables>>

\* mutant: fetch_papers does not test the ids
not_pubmed_ids_untested == FALSE

\* `if not pubmed_ids` of fetch_papers
not_pubmed_ids == pubmed_ids = <<>>

\* `return []` for no ids
NoPapersFound ==
    /\ fetch_pc = "searched"
    /\ not_pubmed_ids
    /\ result' = <<>>
    /\ fetch_pc' = "returned"
    /\ UNCHANGED <<identifier_vars, writer_vars, query, max_results, pubmed_ids,
                   batch_start, all_papers, requests, calls, tables>>

\* self.pubmed_client.fetch_paper_details(pubmed_ids), up to the loop
FetchPaperDetails ==
    /\ fetch_pc = "searched"
    /\ ~ not_pubmed_ids
    /\ calls' = Append(calls, Call("fetch_paper_details", <<pubmed_ids>>))
    /\ batch_start' = 0
    /\ all_papers' = <<>>
    /\ fetch_pc' = "batches"
    /\ UNCHANGED <<identifier_vars, writer_vars, query, max_results, pubmed_ids,
                   requests, result, tables>>

\* mutant: a failed request leaves _fetch_batch_details as an exception
FetchBatch_no_except ==
    /\ fetch_pc = "batches"
    /\ batch_start < Len(pubmed_ids)
    /\ \E response \in Responses :
           LET batch == batch_slice(pubmed_ids, batch_start) IN
           /\ requests' = Append(requests, [batch |-> batch, response |-> response])
           /\ IF response = "RequestException"
              THEN /\ raised' = "RequestException"
                   /\ fetch_pc' = "raised"
                   /\ UNCHANGED <<all_papers, batch_start>>
              ELSE /\ all_papers' = all_papers \o _parse_paper_details(batch, response)
                   /\ batch_start' = batch_start + batch_size
                   /\ UNCHANGED <<raised, fetch_pc>>
    /\ UNCHANGED <<affiliation, called, non_academic, matches, company_names,
                   writer_vars, query, max_results, pubmed_ids, calls, result, tables>>

\* one iteration of `for i in range(0, len(pubmed_ids), batch_size)`:
\* _fetch_batch_details returns [] for a request that fails
FetchBatch ==
    /\ fetch_pc = "batches"
    /\ batch_start < Len(pubmed_ids)
    /\ \E response \in Responses :
           LET batch == batch_slice(pubmed_ids, batch_start) IN
           /\ requests' = Append(requests, [batch |-> batch, response |-> response])
           /\ all_papers' =
                  all_papers \o (IF response = "RequestException" THEN <<>>
                                 ELSE _parse_paper_details(batch, response))
           /\ batch_start' = batch_start + batch_size
    /\ UNCHANGED <<identifier_vars, writer_vars, query, max_results, fetch_pc,
                   pubmed_ids, calls, result, tables>>

\* `return all_papers`, and papers = ... in fetch_papers
FetchPaperDetailsReturn ==
    /\ fetch_pc = "batches"
    /\ batch_start >= Len(pubmed_ids)
    /\ papers' = all_papers
    /\ all_papers' = <<>>
    /\ fetch_pc' = "fetched"
    /\ UNCHANGED <<identifier_vars, pc, idx, records, query, max_results, pubmed_ids,
                   batch_start, requests, calls, result, tables>>

\* `if not papers: return []`
NoPaperDetails ==
    /\ fetch_pc = "fetched"
    /\ papers = <<>>
    /\ result' = <<>>
    /\ fetch_pc' = "returned"
    /\ UNCHANGED <<identifier_vars, writer_vars, query, max_results, pubmed_ids,
                   batch_start, all_papers, requests, calls, tables>>

\* self.csv_writer.filter_and_convert_papers(papers), up to the loop
FilterAndConvertPapers ==
    /\ fetch_pc = "fetched"
    /\ papers # <<>>
    /\ calls' = Append(calls, Call("filter_and_convert_papers", <<papers>>))
    /\ pc' = "loop"
    /\ idx' = 0
    /\ records' = <<>>
    /\ fetch_pc' = "filter"
    /\ UNCHANGED <<identifier_vars, papers, query, max_results, pubmed_ids,
                   batch_start, all_papers, requests, result, tables>>

\* `return records`
FetchPapersReturn ==
    /\ fetch_pc = "filter"
    /\ pc = "done"
    /\ result' = records
    /\ fetch_pc' = "returned"
    /\ UNCHANGED <<identifier_vars, writer_vars, query, max_results, pubmed_ids,
                   batch_start, all_papers, requests, calls, tables>>

NextFetcher ==
    \/ SearchPapers
    \/ NoPapersFound
    \/ FetchPaperDetails
    \/ FetchBatch
    \/ FetchPaperDetailsReturn
    \/ NoPaperDetails
    \/ FilterAndConvertPapers
    \/ ProcessPaper
    \/ Return
    \/ FetchPapersReturn

SpecFetcher == InitFetcher /\ [][NextFetcher]_vars

-----------------------------------------------------------------------------
(* Properties of the classifier and the matcher, under SpecIdentifier *)

Classified == "is_non_academic_affiliation" \in called

Identified == "identify_companies" \in called

HasAcademicKeyword(s) == \E keyword \in academic_keywords : Contains(keyword, s)

HasIndustryKeyword(s) == \E keyword \in biotech_keywords : Contains(keyword, s)

HasKnownCompany(s) == \E company \in pharma_companies : Contains(company, s)

HasAt(s) == \E i \in 1..Len(s) : s[i] = "@"

HasDomainMarker(s) == \E domain \in domains : Contains(domain, s)

\* C1 Academic veto: an affiliation whose lower-case form contains an
\* academic keyword is classified academic (False), whatever industry
\* keywords, known companies or '@' it also contains.
C1_AcademicVeto ==
    (Classified /\ HasAcademicKeyword(lower(affiliation))) => non_academic = FALSE

\* an academic keyword beside a known company and a corporate-looking '@'
C1_Witness ==
    /\ Classified
    /\ HasAcademicKeyword(lower(affiliation))
    /\ HasKnownCompany(lower(affiliation))
    /\ HasAt(affiliation) /\ ~ HasDomainMarker(lower(affiliation))
    /\ non_academic = FALSE

\* C9 Positive classification rules: a non-empty affiliation without an
\* academic keyword is classified non-academic (True) when it contains an
\* industry keyword, or a known company, or '@' and none of .edu, .ac., .gov.
C9_PositiveRules ==
    ( /\ Classified
      /\ affiliation # <<>>
      /\ ~ HasAcademicKeyword(lower(affiliation))
      /\ \/ HasIndustryKeyword(lower(affiliation))
         \/ HasKnownCompany(lower(affiliation))
         \/ HasAt(affiliation) /\ ~ HasDomainMarker(lower(affiliation)) )
    => non_academic = TRUE

\* the e-mail rule alone decides
C9_Witness ==
    /\ Classified
    /\ ~ HasAcademicKeyword(lower(affiliation))
    /\ ~ HasIndustryKeyword(lower(affiliation))
    /\ ~ HasKnownCompany(lower(affiliation))
    /\ HasAt(affiliation) /\ ~ HasDomainMarker(lower(affiliation))
    /\ non_academic = TRUE

\* the industry terms that the specification's step 2 enumerates
enumerated_industry_terms ==
    { <<"p","h","a","r","m","a","c","e","u","t","i","c","a","l","s">>,
      <<"p","h","a","r","m","a">>,
      <<"t","h","e","r","a","p","e","u","t","i","c","s">>,
      <<"b","i","o","s","c","i","e","n","c","e","s">>,
      <<"b","i","o","t","e","c","h","n","o","l","o","g","y">>,
      <<"b","i","o","t","e","c","h">>,
      <<"b","i","o","p","h","a","r","m","a">>,
      <<"m","e","d","i","c","i","n","e","s">>,
      <<"d","r","u","g","s">>,
      <<"i","n","c",".">>, <<"c","o","r","p",".">>, <<"l","t","d",".">>, <<"c","o",".">>,
      <<"l","a","b","o","r","a","t","o","r","i","e","s">>,
      <<"l","a","b","s">>,
      <<"c","l","i","n","i","c","a","l"," ","t","r","i","a","l","s">>,
      <<"c","r","o">>,
      <<"c","o","n","t","r","a","c","t"," ","r","e","s","e","a","r","c","h">> }

HasEnumeratedTerm(s) == \E term \in enumerated_industry_terms : Contains(term, s)

\* C10 as stated: an affiliation with none of the enumerated industry
\* terms, no known company and no '@' is classified academic (False).
C10_Original ==
    ( /\ Classified
      /\ ~ HasEnumeratedTerm(lower(affiliation))
      /\ ~ HasKnownCompany(lower(affiliation))
      /\ ~ HasAt(affiliation) )
    => non_academic = FALSE

\* C10 amended: an affiliation with none of the 25 keywords of
\* _load_biotech_keywords, no known company and no '@' is classified
\* academic (False).
C10_DefaultNegative ==
    ( /\ Classified
      /\ ~ HasIndustryKeyword(lower(affiliation))
      /\ ~ HasKnownCompany(lower(affiliation))
      /\ ~ HasAt(affiliation) )
    => non_academic = FALSE

\* the default `return False` is reached: no rule applies to a non-empty
\* affiliation
C10_Witness ==
    /\ Classified
    /\ affiliation # <<>>
    /\ ~ HasAcademicKeyword(lower(affiliation))
    /\ ~ HasIndustryKeyword(lower(affiliation))
    /\ ~ HasKnownCompany(lower(affiliation))
    /\ ~ HasAt(affiliation)
    /\ non_academic = FALSE

\* C6 Confidence bounds: every match identify_companies returns, exact or
\* keyword, has a confidence between 0.1 and 1.0 (1 and 10 tenths).
C6_ConfidenceBounds ==
    Identified =>
        \A i \in 1..Len(matches) :
            matches[i].confidence >= 1 /\ matches[i].confidence <= 10

\* a long company name that leads the affiliation: both bonuses, the upper
\* bound is met
C6_Witness ==
    /\ Identified
    /\ \E i \in 1..Len(matches) :
          /\ matches[i].match_type = "exact"
          /\ Len(matches[i].company_name) > 10
          /\ startswith(lower(affiliation), lower(matches[i].company_name))
          /\ matches[i].confidence = 10

\* s holds a word character, white space and then one of the five suffix
\* words
HasSuffixPhrase(s) ==
    \E i \in 1..Len(s), j \in 1..Len(s) :
        /\ i + 1 < j
        /\ IsWord(s[i])
        /\ \A k \in (i+1)..(j-1) : IsSpace(s[k])
        /\ \E k \in 1..Len(suffixes) : SuffixAt(s, j, k)

\* C7 Keyword fallback exclusivity: with a known company in the affiliation
\* every match is exact, also beside a "<words> Therapeutics" phrase; with
\* no known company and such a phrase the result is non-empty and every
\* match is a keyword match.
C7_KeywordFallbackExclusive ==
    Identified =>
        /\ HasKnownCompany(lower(affiliation)) =>
               \A i \in 1..Len(matches) : matches[i].match_type = "exact"
        /\ (~ HasKnownCompany(lower(affiliation)) /\ HasSuffixPhrase(lower(affiliation))) =>
               /\ matches # <<>>
               /\ \A i \in 1..Len(matches) : matches[i].match_type = "keyword"

\* a known company followed by a suffix word
C7_Witness ==
    /\ Identified
    /\ HasKnownCompany(lower(affiliation))
    /\ HasSuffixPhrase(lower(affiliation))
    /\ matches # <<>>
    /\ \A i \in 1..Len(matches) : matches[i].match_type = "exact"

\* C8 Known-company exact matching: each known company found in the
\* lower-cased affiliation has exactly one match, of type exact, whose name
\* lower-cased is the company; an academic keyword lowers the confidence
\* and removes no match.
C8_KnownCompanyExact ==
    Identified =>
        \A company \in pharma_companies :
            Contains(company, lower(affiliation)) =>
                /\ Cardinality({i \in 1..Len(matches) :
                                   lower(matches[i].company_name) = company}) = 1
                /\ \A i \in 1..Len(matches) :
                       lower(matches[i].company_name) = company =>
                           matches[i].match_type = "exact"

\* a known company beside an academic keyword: matched, at 0.6
C8_Witness ==
    /\ Identified
    /\ HasAcademicKeyword(lower(affiliation))
    /\ \E i \in 1..Len(matches) :
          /\ matches[i].match_type = "exact"
          /\ matches[i].confidence = 6
          /\ Contains(lower(matches[i].company_name), lower(affiliation))

\* C11 Totality and empty input: on every str, and on None, neither
\* is_non_academic_affiliation nor identify_companies raises; the first
\* returns a boolean and the second a sequence of matches, and for the
\* empty str and for None they return False and the empty sequence.
C11_TotalityEmptyInput ==
    /\ raised = ""
    /\ Classified =>
           /\ non_academic \in BOOLEAN
           /\ affiliation \in {<<>>, None} => non_academic = FALSE
    /\ Identified =>
           /\ \A i \in 1..Len(matches) :
                  /\ matches[i].match_type \in {"exact", "keyword"}
                  /\ matches[i].confidence \in 1..10
                  /\ IsStr(matches[i].company_name)
           /\ affiliation \in {<<>>, None} => matches = <<>>

\* identify_companies(None) has returned the empty sequence
C11_Witness ==
    /\ Identified
    /\ affiliation = None
    /\ matches = <<>>
    /\ raised = ""

\* the matches identify_companies collects before it removes duplicates:
\* one per known company found, and the keyword matches when there is none
Candidates(aff) ==
    LET found == found_companies(lower(aff))
        keyword_matches == _find_keyword_matches(aff)
    IN  IF found # {}
        THEN {CompanyMatch(title(company), _calculate_confidence(lower(aff), company), "exact") :
                  company \in found}
        ELSE {keyword_matches[i] : i \in 1..Len(keyword_matches)}

\* C15 Matcher output shape: the result of identify_companies is in
\* non-increasing order of confidence, holds no two matches whose names are
\* equal when lower-cased, and for every candidate match holds a match of
\* that name whose confidence is not less.
C15_MatcherOutputShape ==
    (Identified /\ raised = "") =>
        /\ \A i, j \in 1..Len(matches) :
               i < j => matches[i].confidence >= matches[j].confidence
        /\ \A i, j \in 1..Len(matches) :
               lower(matches[i].company_name) = lower(matches[j].company_name) => i = j
        /\ \A candidate \in Candidates(affiliation) :
               \E i \in 1..Len(matches) :
                   /\ lower(matches[i].company_name) = lower(candidate.company_name)
                   /\ matches[i].confidence >= candidate.confidence

\* the same phrase twice in the affiliation: two keyword candidates of one
\* name, one match
C15_Witness ==
    /\ Identified
    /\ Len(_find_keyword_matches(affiliation)) = 2
    /\ Cardinality(Candidates(affiliation)) = 1
    /\ Len(matches) = 1

\* C16 Default threshold excludes nothing: extract_company_names with the
\* default min_confidence 0.5 returns the name of every match of
\* identify_companies, in the same order, and no match has a confidence
\* below 0.5 (5 tenths).
C16_DefaultThreshold ==
    /\ Identified => \A i \in 1..Len(matches) : matches[i].confidence >= 5
    /\ "extract_company_names" \in called =>
           company_names = [i \in 1..Len(matches) |-> matches[i].company_name]

\* the lowest exact confidence, 0.6 beside an academic keyword, is kept
C16_Witness ==
    /\ "extract_company_names" \in called
    /\ HasAcademicKeyword(lower(affiliation))
    /\ Len(matches) = 1
    /\ matches[1].match_type = "exact"
    /\ matches[1].confidence = 6
    /\ company_names = <<matches[1].company_name>>

-----------------------------------------------------------------------------
(* Properties of the record filter, under SpecWriter.  The papers of one   *)
(* call have distinct pubmed_id values, so the records of a paper are the  *)
(* records that carry its pubmed_id.                                       *)

\* the positions in records of the records of a paper
RecordsOf(paper) ==
    {j \in 1..Len(records) : records[j].pubmed_id = paper.pubmed_id}

\* the authors of a paper that the classifier takes for non-academic
NonAcademicAuthors(paper) ==
    {i \in 1..Len(paper.authors) :
        is_non_academic_affiliation(paper.authors[i].affiliation)}

\* the authors flagged corresponding that have a non-empty email
CorrespondingWithEmail(paper) ==
    {i \in 1..Len(paper.authors) :
        /\ paper.authors[i].is_corresponding = TRUE
        /\ paper.authors[i].email # None
        /\ paper.authors[i].email # <<>>}

\* the authors that have a non-empty email
WithEmail(paper) ==
    {i \in 1..Len(paper.authors) :
        paper.authors[i].email # None /\ paper.authors[i].email # <<>>}

\* the processing of the paper fails on malformed author data: an
\* affiliation that is not a str, or a non-academic author whose name is
\* not a str
Fails(paper) ==
    \E i \in 1..Len(paper.authors) :
        \/ paper.authors[i].affiliation = Malformed
        \/ /\ paper.authors[i].name = None
           /\ is_non_academic_affiliation(paper.authors[i].affiliation)

Greatest(S) == CHOOSE i \in S : \A j \in S : j <= i

Least(S) == CHOOSE i \in S : \A j \in S : i <= j

\* C2 Record existence: a processed paper whose author data are well
\* formed has a record in the output if and only if one of its authors is
\* classified non-academic, and then exactly one, whatever the names and
\* emails of its authors.
C2_RecordExistence ==
    \A k \in 1..idx :
        ~ Fails(papers[k]) =>
            Cardinality(RecordsOf(papers[k])) =
                IF NonAcademicAuthors(papers[k]) # {} THEN 1 ELSE 0

\* C3 Filter drop: a processed paper whose authors are all classified
\* academic (or that has no author) has no record in the output.
C3_FilterDrop ==
    \A k \in 1..idx :
        NonAcademicAuthors(papers[k]) = {} => RecordsOf(papers[k]) = {}

\* dropped although an author is flagged corresponding and has an email
C3_Witness ==
    \E k \in 1..idx :
        /\ papers[k].authors # <<>>
        /\ NonAcademicAuthors(papers[k]) = {}
        /\ CorrespondingWithEmail(papers[k]) # {}
        /\ RecordsOf(papers[k]) = {}

\* C4 Corresponding-email precedence: the record of a paper that has an
\* author flagged corresponding with a non-empty email carries the email of
\* the last such author, whatever plain emails come before, between or
\* after.
C4_CorrespondingEmailPrecedence ==
    \A k \in 1..idx : \A j \in RecordsOf(papers[k]) :
        CorrespondingWithEmail(papers[k]) # {} =>
            records[j].corresponding_author_email =
                papers[k].authors[Greatest(CorrespondingWithEmail(papers[k]))].email

\* a plain email, then a corresponding one, then another plain one; the
\* corresponding author is the academic one
C4_Witness ==
    \E k \in 1..idx : \E j \in RecordsOf(papers[k]) :
        /\ Len(papers[k].authors) = 3
        /\ CorrespondingWithEmail(papers[k]) = {2}
        /\ WithEmail(papers[k]) = {1, 2, 3}
        /\ papers[k].authors[1].email # papers[k].authors[2].email
        /\ papers[k].authors[3].email # papers[k].authors[2].email
        /\ 2 \notin NonAcademicAuthors(papers[k])
        /\ records[j].corresponding_author_email = papers[k].authors[2].email

\* C5 Fallback email: the record of a paper with no author that is flagged
\* corresponding and has a non-empty email carries the email of the first
\* author that has one, and the empty string, never None, when none has.
C5_FallbackEmail ==
    \A k \in 1..idx : \A j \in RecordsOf(papers[k]) :
        CorrespondingWithEmail(papers[k]) = {} =>
            /\ records[j].corresponding_author_email # None
            /\ records[j].corresponding_author_email =
                   IF WithEmail(papers[k]) = {} THEN <<>>
                   ELSE papers[k].authors[Least(WithEmail(papers[k]))].email

\* a corresponding author without email, then two different plain emails
C5_Witness ==
    \E k \in 1..idx : \E j \in RecordsOf(papers[k]) :
        /\ Len(papers[k].authors) = 3
        /\ CorrespondingWithEmail(papers[k]) = {}
        /\ papers[k].authors[1].is_corresponding = TRUE
        /\ WithEmail(papers[k]) = {2, 3}
        /\ papers[k].authors[2].email # papers[k].authors[3].email
        /\ records[j].corresponding_author_email = papers[k].authors[2].email

\* the records filter_and_convert_papers returns for the paper alone
Alone(paper) ==
    LET orders == [i \in 1..Len(paper.authors) |->
                      CHOOSE order \in Orders(found_companies(
                                           lower(paper.authors[i].affiliation))) : TRUE]
        record == _process_paper(paper, orders)
    IN  IF keeps(record) THEN <<record>> ELSE <<>>

\* the records of the papers among papers[1..n] that do not fail, each
\* processed alone, in input order
RECURSIVE AloneUpTo(_)
AloneUpTo(n) ==
    IF n = 0 THEN <<>>
    ELSE AloneUpTo(n - 1) \o (IF Fails(papers[n]) THEN <<>> ELSE Alone(papers[n]))

\* C12 Fault isolation: when every entry of the input is a paper, some with
\* malformed author data at some author position, filter_and_convert_papers
\* does not raise, a failing paper has no record, and the records so far
\* are the records the non-failing papers give alone, in input order.
C12_FaultIsolation ==
    (\A k \in 1..Len(papers) : papers[k] # NoPaper) =>
        /\ pc # "raised"
        /\ raised = ""
        /\ \A k \in 1..idx : Fails(papers[k]) => RecordsOf(papers[k]) = {}
        /\ records = AloneUpTo(idx)

\* returned: a failing paper between two papers whose records are the output
C12_Witness ==
    /\ pc = "done"
    /\ Len(papers) = 3
    /\ \A k \in 1..3 : papers[k] # NoPaper
    /\ ~ Fails(papers[1]) /\ Fails(papers[2]) /\ ~ Fails(papers[3])
    /\ Len(Alone(papers[1])) = 1 /\ Len(Alone(papers[3])) = 1
    /\ records = Alone(papers[1]) \o Alone(papers[3])

\* C18 No state between papers: the lookup tables stay what __init__
\* loaded through every call of _process_paper and of the identifier
\* methods it makes, and the record or absence of record in the output for
\* a processed paper is what _process_paper gives for that paper under
\* every iteration order of the lookup sets, whatever papers came before.
C18_NoStateBetweenPapers ==
    /\ CompanyIdentifierInit
    /\ \A k \in 1..idx :
           papers[k] # NoPaper =>
               \A orders \in paper_orders(papers[k].authors) :
                   LET record == _process_paper(papers[k], orders)
                   IN  /\ Cardinality(RecordsOf(papers[k])) = IF keeps(record) THEN 1 ELSE 0
                       /\ \A j \in RecordsOf(papers[k]) : records[j] = record

\* returned: a paper with an affiliation that names two companies, so that
\* the matcher has several iteration orders, was processed third, after a
\* paper that gave a record, and gave its own
C18_Witness ==
    /\ pc = "done"
    /\ Len(papers) = 3
    /\ papers[2] # NoPaper
    /\ Cardinality(paper_orders(papers[3].authors)) > 1
    /\ RecordsOf(papers[1]) = {1}
    /\ RecordsOf(papers[3]) = {Len(records)}
    /\ tables.pharma_companies = _load_pharma_companies

\* the names of the authors classified non-academic, in author order
NonAcademicNames(paper) ==
    LET listed == SelectSeq(paper.authors,
                      LAMBDA author : is_non_academic_affiliation(author.affiliation))
    IN  [i \in 1..Len(listed) |-> listed[i].name]

\* C13 Non-academic author list: the non_academic_authors of a record is
\* the "; " join of the names of the authors of its paper that are
\* classified non-academic, each once, in author order.
C13_NonAcademicAuthorList ==
    \A k \in 1..idx : \A j \in RecordsOf(papers[k]) :
        records[j].non_academic_authors =
            join(<<";", " ">>, NonAcademicNames(papers[k]))

\* two non-academic authors of different names around an academic one
C13_Witness ==
    \E k \in 1..idx : \E j \in RecordsOf(papers[k]) :
        /\ Len(papers[k].authors) = 3
        /\ NonAcademicAuthors(papers[k]) = {1, 3}
        /\ papers[k].authors[1].name # papers[k].authors[3].name
        /\ papers[k].authors[2].name # <<>>
        /\ records[j].non_academic_authors =
               papers[k].authors[1].name \o <<";", " ">> \o papers[k].authors[3].name

\* the company names extract_company_names gives, at the default
\* threshold, for the affiliations of the non-academic authors of a paper
CompanyNamesOf(paper) ==
    UNION { LET aff == paper.authors[i].affiliation
                order == CHOOSE o \in Orders(found_companies(lower(aff))) : TRUE
                names == extract_company_names(identify_companies(aff, order), 5)
            IN  {names[n] : n \in 1..Len(names)} : i \in NonAcademicAuthors(paper) }

\* C14 Company affiliations of a record: company_affiliations is the "; "
\* join of the company names of the non-academic authors of the paper, each
\* name once, in increasing lexicographic order; an author classified
\* academic contributes none.
C14_CompanyAffiliations ==
    \A k \in 1..idx : \A j \in RecordsOf(papers[k]) :
        \E names \in Orders(CompanyNamesOf(papers[k])) :
            /\ \A a, b \in 1..Len(names) : a < b => str_less(names[a], names[b])
            /\ records[j].company_affiliations = join(<<";", " ">>, names)

\* Roche met first, Pfizer second, Roche again: listed once, after Pfizer
C14_Witness ==
    \E k \in 1..idx : \E j \in RecordsOf(papers[k]) :
        /\ Len(papers[k].authors) = 3
        /\ papers[k].authors[1].affiliation = RochePharma
        /\ papers[k].authors[2].affiliation = PfizerInc
        /\ papers[k].authors[3].affiliation = RochePharma
        /\ records[j].company_affiliations =
               <<"P","f","i","z","e","r",";"," ","R","o","c","h","e">>

-----------------------------------------------------------------------------
(* Properties of fetch_papers and fetch_paper_details, under SpecFetcher *)

Pipeline == <<"search_papers", "fetch_paper_details", "filter_and_convert_papers">>

Methods == [k \in 1..Len(calls) |-> calls[k].method]

\* C17: a call of fetch_papers calls search_papers once, with the query and
\* max_results, then fetch_paper_details at most once, with the ids the
\* search returned, then filter_and_convert_papers at most once, in this
\* order; for no ids it returns [] after the search alone, and for no
\* paper details it returns [] without the filter; a return is no raise
C17_FetchPipelineOrdering ==
    fetch_pc # "idle" =>
        /\ Len(calls) <= Len(Pipeline)
        /\ Methods = SubSeq(Pipeline, 1, Len(calls))
        /\ fetch_pc # "start" =>
               /\ Len(calls) >= 1
               /\ calls[1].args = <<query, max_results>>
        /\ Len(calls) >= 2 =>
               /\ pubmed_ids # <<>>
               /\ calls[2].args = <<pubmed_ids>>
        /\ Len(calls) >= 3 =>
               /\ papers # <<>>
               /\ calls[3].args = <<papers>>
        /\ (fetch_pc = "returned" /\ pubmed_ids = <<>>) =>
               /\ Len(calls) = 1
               /\ result = <<>>
        /\ (fetch_pc = "returned" /\ pubmed_ids # <<>> /\ papers = <<>>) =>
               /\ Len(calls) = 2
               /\ result = <<>>
        /\ (fetch_pc = "returned" /\ papers # <<>>) =>
               /\ Len(calls) = 3
               /\ result = records
        /\ fetch_pc = "returned" => raised = ""

\* the whole pipeline ran with the default max_results, and records came back
C17_Witness ==
    /\ fetch_pc = "returned"
    /\ max_results = max_results_default
    /\ Methods = Pipeline
    /\ Len(pubmed_ids) > batch_size
    /\ result # <<>>
    /\ Len(result) < Len(papers)

RECURSIVE Flatten(_)
Flatten(seqs) ==
    IF seqs = <<>> THEN <<>> ELSE Head(seqs) \o Flatten(Tail(seqs))

Ceil(n, d) == (n + d - 1) \div d

\* the papers a request contributes: none when the request failed
PapersOf(request) ==
    IF request.response = "RequestException" THEN <<>>
    ELSE _parse_paper_details(request.batch, request.response)

\* the list fetch_paper_details has built, or has returned
Details == IF fetch_pc = "batches" THEN all_papers ELSE papers

\* C19: the requests of fetch_paper_details take the ids in order, in
\* batches of 1 to 20 ids, each id in one batch; the loop ends after
\* ceil(n / 20) requests whatever requests failed; the papers returned are
\* those of the requests that did not fail, in request order; no exception
\* leaves fetch_paper_details
C19_BatchFetching ==
    Len(calls) >= 2 =>
        LET n == Len(pubmed_ids)
            batches == [k \in 1..Len(requests) |-> requests[k].batch]
        IN  /\ \A k \in 1..Len(requests) :
                   Len(batches[k]) \in 1..batch_size
            /\ Flatten(batches) =
                   SubSeq(pubmed_ids, 1, Min(batch_size * Len(requests), n))
            /\ Len(requests) <= Ceil(n, batch_size)
            /\ fetch_pc # "batches" =>
                   /\ Len(requests) = Ceil(n, batch_size)
                   /\ Flatten(batches) = pubmed_ids
            /\ Details = Flatten([k \in 1..Len(requests) |-> PapersOf(requests[k])])
            /\ raised = ""
            /\ fetch_pc # "raised"

\* three batches, the second request failed, the third was still made and
\* its paper follows the twenty of the first
C19_Witness ==
    /\ fetch_pc = "fetched"
    /\ Len(pubmed_ids) = 2 * batch_size + 1
    /\ Len(requests) = 3
    /\ requests[1].response = "ok"
    /\ requests[2].response = "RequestException"
    /\ requests[3].response = "ok"
    /\ Len(papers) = batch_size + 1
    /\ papers[batch_size + 1].pubmed_id = pubmed_ids[2 * batch_size + 1]

=============================================================================
